---- MODULE Spec2Model ----
(***************************************************************************)
(* emdeer.py (docs/implementing-tutorial): source code to markdown.        *)
(*                                                                         *)
(* A string is a sequence of one-character strings; a list of lines is a   *)
(* sequence of such strings.  Python lists are 0-based, the sequences here *)
(* are 1-based: Python index k is index k+1 below.                         *)
(***************************************************************************)
EXTENDS Integers, Sequences, FiniteSets, TLC

VARIABLES
    programOutputLines, \* a.output.txt, split into lines
    p,                  \* position of "for s in programOutputLines"
    outputBlocks,       \* dict: block key -> list of lines
    blockKey,
    blockLines,
    sourceFile,         \* the source file as it is on disk
    src,                \* sourceLines / src, rewritten in place
    i,                  \* position of the forward / backward sweep
    prevLineWasText,
    previousLineWasText,
    t,                  \* position of "for s in src"
    savedOutputting,
    isOutputting,
    out,                \* the outputLine calls so far, in order
    history,            \* isOutputting and Len(out) after each line of src
    pc

vars == <<programOutputLines, p, outputBlocks, blockKey, blockLines,
          sourceFile, src, i, prevLineWasText, previousLineWasText,
          t, savedOutputting, isOutputting, out, history, pc>>

-----------------------------------------------------------------------------
(* Bounds of the model *)

MaxSrcLen == 4

MaxOutLen == 4

-----------------------------------------------------------------------------
(* Strings *)

isSpace(c) == c \in {" ", "\t"}

RECURSIVE lstrip(_)
lstrip(s) ==
    IF s # <<>> /\ isSpace(Head(s)) THEN lstrip(Tail(s)) ELSE s

RECURSIVE rstrip(_)
rstrip(s) ==
    IF s # <<>> /\ isSpace(s[Len(s)]) THEN rstrip(SubSeq(s, 1, Len(s) - 1)) ELSE s

strip(s) == rstrip(lstrip(s))

startswith(s, prefix) ==
    Len(s) >= Len(prefix) /\ SubSeq(s, 1, Len(prefix)) = prefix

endswith(s, suffix) ==
    Len(s) >= Len(suffix) /\ SubSeq(s, Len(s) - Len(suffix) + 1, Len(s)) = suffix

\* s[n:]
sliceFrom(s, n) == IF n >= Len(s) THEN <<>> ELSE SubSeq(s, n + 1, Len(s))

\* s[1:-1]
sliceInner(s) == IF Len(s) <= 2 THEN <<>> ELSE SubSeq(s, 2, Len(s) - 1)

-----------------------------------------------------------------------------
(* Queries and operations on lines of text *)

isBlank(s) == Len(strip(s)) = 0

textPrefix == <<"/", "/", "/", " ">>

isText(s) == startswith(s, textPrefix) \/ strip(s) = strip(textPrefix)

\* The body reads the module-level name s, not its parameter x; at both
\* call sites s is the line of "for s in src" and x is that same line.
stripTextPrefix(x, s) == sliceFrom(s, Len(textPrefix))

isCode(s) == ~isText(s)

RECURSIVE stripLeadingBlank(_)
stripLeadingBlank(xs) ==
    IF xs # <<>> /\ isBlank(Head(xs)) THEN stripLeadingBlank(Tail(xs)) ELSE xs

RECURSIVE stripTrailingBlank(_)
stripTrailingBlank(xs) ==
    IF xs # <<>> /\ isBlank(xs[Len(xs)])
    THEN stripTrailingBlank(SubSeq(xs, 1, Len(xs) - 1))
    ELSE xs

\* stripBlankLines without its second loop
stripBlankLinesLeadingOnly(xs) == stripLeadingBlank(xs)

stripBlankLines(xs) == stripTrailingBlank(stripLeadingBlank(xs))

-----------------------------------------------------------------------------
(* Split program output into the outputBlocks dict *)

delimOpen == <<"#", " ", "[">>

delimClose == <<"]", " ", "#">>

isDelimiter(s) ==
    startswith(strip(s), delimOpen) /\ endswith(strip(s), delimClose)

newBlockKey(s) == strip(sliceInner(s))

\* setBlock that keeps a key's first block
setBlockKeepFirst(blocks, key, value) ==
    [k \in DOMAIN blocks \cup {key} |->
        IF k \in DOMAIN blocks THEN blocks[k] ELSE value]

\* outputBlocks[key] = value
setBlock(blocks, key, value) ==
    [k \in DOMAIN blocks \cup {key} |-> IF k = key THEN value ELSE blocks[k]]

\* flushBlock that does not ask whether a block is open
flushBlockAlways(blocks, key, lines) ==
    setBlock(blocks, key, stripBlankLines(lines))

flushBlock(blocks, key, lines) ==
    IF key # <<>> THEN setBlock(blocks, key, stripBlankLines(lines)) ELSE blocks

\* one iteration of "for s in programOutputLines"
ParseLine ==
    /\ pc = "parse"
    /\ p <= Len(programOutputLines)
    /\ LET s == programOutputLines[p] IN
         IF isDelimiter(s)
         THEN /\ outputBlocks' = flushBlock(outputBlocks, blockKey, blockLines)
              /\ blockKey' = newBlockKey(s)
              /\ blockLines' = <<>>
         ELSE /\ blockLines' = Append(blockLines, s)
              /\ UNCHANGED <<outputBlocks, blockKey>>
    /\ p' = p + 1
    /\ UNCHANGED <<programOutputLines, sourceFile, src, i, prevLineWasText,
                   previousLineWasText, t, savedOutputting, isOutputting,
                   out, history, pc>>

\* the loop is over: flush the last block, read the source, seed the sweep
ParseEnd ==
    /\ pc = "parse"
    /\ p > Len(programOutputLines)
    /\ outputBlocks' = flushBlock(outputBlocks, blockKey, blockLines)
    /\ blockLines' = IF blockKey # <<>> THEN stripBlankLines(blockLines) ELSE blockLines
    /\ src' = sourceFile
    /\ prevLineWasText' = TRUE
    /\ i' = 1
    /\ pc' = "forward"
    /\ UNCHANGED <<programOutputLines, p, blockKey, sourceFile,
                   previousLineWasText, t, savedOutputting, isOutputting,
                   out, history>>

-----------------------------------------------------------------------------
(* Extend text areas to adjacent blank lines *)

\* extendText that answers for the line as it was before the rewrite
extendTextStale(lines, k, previousLineWasText_) ==
    LET s == lines[k] IN
    IF isBlank(s) /\ previousLineWasText_
    THEN [src |-> [lines EXCEPT ![k] = textPrefix], ret |-> isText(s)]
    ELSE [src |-> lines, ret |-> isText(s)]

\* extendText that does not ask whether the line is blank
extendTextAnyLine(lines, k, previousLineWasText_) ==
    LET s == lines[k] IN
    IF previousLineWasText_
    THEN [src |-> [lines EXCEPT ![k] = textPrefix], ret |-> TRUE]
    ELSE [src |-> lines, ret |-> isText(s)]

\* extendText(i, previousLineWasText) on the list lines: the list afterwards
\* and the value returned
extendText(lines, k, previousLineWasText_) ==
    LET s == lines[k] IN
    IF isBlank(s) /\ previousLineWasText_
    THEN [src |-> [lines EXCEPT ![k] = textPrefix], ret |-> TRUE]
    ELSE [src |-> lines, ret |-> isText(s)]

\* one iteration of "for i in range(0,N)"
ForwardStep ==
    /\ pc = "forward"
    /\ i <= Len(src)
    /\ LET r == extendText(src, i, prevLineWasText) IN
         /\ src' = r.src
         /\ prevLineWasText' = r.ret
    /\ i' = i + 1
    /\ UNCHANGED <<programOutputLines, p, outputBlocks, blockKey, blockLines,
                   sourceFile, previousLineWasText, t, savedOutputting,
                   isOutputting, out, history, pc>>

\* "previousLineWasText = True # backward": the name assigned is not the
\* name the sweeps pass to extendText, so prevLineWasText keeps the value
\* the forward sweep left in it
ForwardEnd ==
    /\ pc = "forward"
    /\ i > Len(src)
    /\ previousLineWasText' = TRUE
    /\ i' = Len(src)
    /\ pc' = "backward"
    /\ UNCHANGED <<programOutputLines, p, outputBlocks, blockKey, blockLines,
                   sourceFile, src, prevLineWasText, t, savedOutputting,
                   isOutputting, out, history>>

\* one iteration of "for i in range(N-1,-1,-1)"
BackwardStep ==
    /\ pc = "backward"
    /\ i >= 1
    /\ LET r == extendText(src, i, prevLineWasText) IN
         /\ src' = r.src
         /\ prevLineWasText' = r.ret
    /\ i' = i - 1
    /\ UNCHANGED <<programOutputLines, p, outputBlocks, blockKey, blockLines,
                   sourceFile, previousLineWasText, t, savedOutputting,
                   isOutputting, out, history, pc>>

BackwardEnd ==
    /\ pc = "backward"
    /\ i < 1
    /\ savedOutputting' = ""
    /\ isOutputting' = "text"
    /\ t' = 1
    /\ pc' = "transduce"
    /\ UNCHANGED <<programOutputLines, p, outputBlocks, blockKey, blockLines,
                   sourceFile, src, i, prevLineWasText, previousLineWasText,
                   out, history>>

\* the two sweeps as one function of the list of lines
RECURSIVE forwardSweep(_, _, _)
forwardSweep(lines, k, flag) ==
    IF k > Len(lines) THEN [src |-> lines, ret |-> flag]
    ELSE LET r == extendText(lines, k, flag) IN forwardSweep(r.src, k + 1, r.ret)

RECURSIVE backwardSweep(_, _, _)
backwardSweep(lines, k, flag) ==
    IF k < 1 THEN [src |-> lines, ret |-> flag]
    ELSE LET r == extendText(lines, k, flag) IN backwardSweep(r.src, k - 1, r.ret)

extendRegions(lines) ==
    LET f == forwardSweep(lines, 1, TRUE) IN
    backwardSweep(f.src, Len(lines), f.ret).src

-----------------------------------------------------------------------------
(* Output the text *)

\* the backquote character, which no string of this notation can hold
BQ == "backquote"

codeBegin == <<BQ, BQ, BQ, "c", "+", "+">>

codeEnd == <<BQ, BQ, BQ>>

quoteFence == <<">", " ", BQ, BQ, BQ>>

\* one outputLine call: the call site and the line written
outputLine(site, s) == [site |-> site, text |-> s]

\* outputText that writes the trimmed line when no key matches
outputTextTrimmed(s, blocks) ==
    LET ss == strip(s) IN
    IF ss \in DOMAIN blocks
    THEN LET b == blocks[ss] IN
         <<outputLine("blockHeader", <<">">> \o ss \o <<":">>),
           outputLine("blockFence", quoteFence)>>
         \o [k \in 1..Len(b) |-> outputLine("blockLine", <<">", " ">> \o b[k])]
         \o <<outputLine("blockFence", quoteFence)>>
    ELSE <<outputLine("text", ss)>>

\* the outputLine calls of outputText(s), in order
outputText(s, blocks) ==
    LET ss == strip(s) IN
    IF ss \in DOMAIN blocks
    THEN LET b == blocks[ss] IN
         <<outputLine("blockHeader", <<">">> \o ss \o <<":">>),
           outputLine("blockFence", quoteFence)>>
         \o [k \in 1..Len(b) |-> outputLine("blockLine", <<">", " ">> \o b[k])]
         \o <<outputLine("blockFence", quoteFence)>>
    ELSE <<outputLine("text", s)>>

MD_BEGIN_HIDE == <<"M", "D", "_", "B", "E", "G", "I", "N", "_", "H", "I", "D", "E">>

MD_END_HIDE == <<"M", "D", "_", "E", "N", "D", "_", "H", "I", "D", "E">>

isBeginHide(s) == strip(s) = MD_BEGIN_HIDE

isEndHide(s) == strip(s) = MD_END_HIDE

\* hiddenBranch that writes the hide-end line it meets
hiddenBranchEchoesEnd(s, saved) ==
    IF isEndHide(s)
    THEN [isOutputting |-> saved, savedOutputting |-> saved,
          emit |-> <<outputLine("code", s)>>]
    ELSE [isOutputting |-> "hidden", savedOutputting |-> saved, emit |-> <<>>]

\* codeBranch that enters a hide region without saving the state
codeBranchNoSave(s, saved, blocks) ==
    IF isBeginHide(s)
    THEN [isOutputting |-> "hidden", savedOutputting |-> saved, emit |-> <<>>]
    ELSE IF isCode(s)
    THEN [isOutputting |-> "code", savedOutputting |-> saved,
          emit |-> <<outputLine("code", s)>>]
    ELSE [isOutputting |-> "text", savedOutputting |-> saved,
          emit |-> <<outputLine("codeEnd", codeEnd)>>
                   \o outputText(stripTextPrefix(s, s), blocks)]

\* codeBranch that leaves a code region without closing the fence
codeBranchNoClose(s, saved, blocks) ==
    IF isBeginHide(s)
    THEN [isOutputting |-> "hidden", savedOutputting |-> "code", emit |-> <<>>]
    ELSE IF isCode(s)
    THEN [isOutputting |-> "code", savedOutputting |-> saved,
          emit |-> <<outputLine("code", s)>>]
    ELSE [isOutputting |-> "text", savedOutputting |-> saved,
          emit |-> outputText(stripTextPrefix(s, s), blocks)]

\* hiddenBranch that lets a hide-begin marker open a nested region
hiddenBranchNests(s, saved) ==
    IF isEndHide(s)
    THEN [isOutputting |-> saved, savedOutputting |-> saved, emit |-> <<>>]
    ELSE IF isBeginHide(s)
    THEN [isOutputting |-> "hidden", savedOutputting |-> "hidden", emit |-> <<>>]
    ELSE [isOutputting |-> "hidden", savedOutputting |-> saved, emit |-> <<>>]

\* hiddenBranch that writes the lines it should skip
hiddenBranchLeaks(s, saved) ==
    IF isEndHide(s)
    THEN [isOutputting |-> saved, savedOutputting |-> saved, emit |-> <<>>]
    ELSE [isOutputting |-> "hidden", savedOutputting |-> saved,
          emit |-> <<outputLine("code", s)>>]

\* textBranch that takes either hide marker for a hide-begin marker
textBranchAnyMarkerHides(s, saved, blocks) ==
    IF isBeginHide(s) \/ isEndHide(s)
    THEN [isOutputting |-> "hidden", savedOutputting |-> "text", emit |-> <<>>]
    ELSE IF isText(s)
    THEN [isOutputting |-> "text", savedOutputting |-> saved,
          emit |-> outputText(stripTextPrefix(s, s), blocks)]
    ELSE [isOutputting |-> "code", savedOutputting |-> saved,
          emit |-> <<outputLine("codeBegin", codeBegin), outputLine("code", s)>>]

\* The three branches of the loop body: the state and saved state
\* afterwards and the outputLine calls made.
hiddenBranch(s, saved) ==
    IF isEndHide(s)
    THEN [isOutputting |-> saved, savedOutputting |-> saved, emit |-> <<>>]
    ELSE [isOutputting |-> "hidden", savedOutputting |-> saved, emit |-> <<>>]

textBranch(s, saved, blocks) ==
    IF isBeginHide(s)
    THEN [isOutputting |-> "hidden", savedOutputting |-> "text", emit |-> <<>>]
    ELSE IF isText(s)
    THEN [isOutputting |-> "text", savedOutputting |-> saved,
          emit |-> outputText(stripTextPrefix(s, s), blocks)]
    ELSE [isOutputting |-> "code", savedOutputting |-> saved,
          emit |-> <<outputLine("codeBegin", codeBegin), outputLine("code", s)>>]

codeBranch(s, saved, blocks) ==
    IF isBeginHide(s)
    THEN [isOutputting |-> "hidden", savedOutputting |-> "code", emit |-> <<>>]
    ELSE IF isCode(s)
    THEN [isOutputting |-> "code", savedOutputting |-> saved,
          emit |-> <<outputLine("code", s)>>]
    ELSE [isOutputting |-> "text", savedOutputting |-> saved,
          emit |-> <<outputLine("codeEnd", codeEnd)>>
                   \o outputText(stripTextPrefix(s, s), blocks)]

loopBody(s, state, saved, blocks) ==
    IF state = "hidden" THEN hiddenBranch(s, saved)
    ELSE IF state = "text" THEN textBranch(s, saved, blocks)
    ELSE codeBranch(s, saved, blocks)

\* one iteration of "for s in src"
TransduceLine ==
    /\ pc = "transduce"
    /\ t <= Len(src)
    /\ LET r == loopBody(src[t], isOutputting, savedOutputting, outputBlocks) IN
         /\ isOutputting' = r.isOutputting
         /\ savedOutputting' = r.savedOutputting
         /\ out' = out \o r.emit
         /\ history' = Append(history, [isOutputting |-> r.isOutputting,
                                        outLen |-> Len(out) + Len(r.emit)])
    /\ t' = t + 1
    /\ UNCHANGED <<programOutputLines, p, outputBlocks, blockKey, blockLines,
                   sourceFile, src, i, prevLineWasText, previousLineWasText, pc>>

\* the outputLine calls after the loop
endOfStream(state) ==
    IF state = "code" THEN <<outputLine("codeEnd", codeEnd)>> ELSE <<>>

EndOfStream ==
    /\ pc = "transduce"
    /\ t > Len(src)
    /\ out' = out \o endOfStream(isOutputting)
    /\ pc' = "done"
    /\ UNCHANGED <<programOutputLines, p, outputBlocks, blockKey, blockLines,
                   sourceFile, src, i, prevLineWasText, previousLineWasText,
                   t, savedOutputting, isOutputting, history>>

\* the whole of "for s in src" and the end-of-stream step, from line k on:
\* the outputLine calls made
RECURSIVE transduceFrom(_, _, _, _, _)
transduceFrom(lines, k, state, saved, blocks) ==
    IF k > Len(lines) THEN endOfStream(state)
    ELSE LET r == loopBody(lines[k], state, saved, blocks) IN
         r.emit \o transduceFrom(lines, k + 1, r.isOutputting,
                                 r.savedOutputting, blocks)

\* the two sweeps and the transducer, as a function of the source file
render(file, blocks) ==
    transduceFrom(extendRegions(file), 1, "text", "", blocks)

-----------------------------------------------------------------------------
(* Inputs *)

RECURSIVE SeqsUpTo(_, _)
SeqsUpTo(S, n) ==
    IF n = 0 THEN {<<>>}
    ELSE LET shorter == SeqsUpTo(S, n - 1) IN
         shorter \cup {Append(q, x) : q \in shorter, x \in S}

lineCode == <<"x">>

lineBlank == <<>>

lineKeyRef == textPrefix \o <<" ", "[", "k", "]">>

lineProse == textPrefix \o <<"k", " ">>

linePrefixOnly == <<"/", "/", "/">>

lineIndentedPrefix == <<" ", " ", "/", "/", "/">>

SourceLineChoices ==
    {lineCode, lineBlank, lineKeyRef, lineProse, linePrefixOnly,
     lineIndentedPrefix, MD_BEGIN_HIDE, MD_END_HIDE}

delimK == <<"#", " ", "[", "k", "]", " ", "#">>

delimJ == <<"#", " ", "[", "j", "]", " ", "#">>

SampleOutput == <<delimK, <<"h">>, <<"w">>, delimJ, <<>>, <<"g">>>>

OutputLineChoices ==
    {delimK, <<" ">> \o delimK, delimJ, <<"h">>, <<>>}

SampleSources ==
    {<<lineKeyRef, lineCode, MD_BEGIN_HIDE, lineCode, MD_END_HIDE, lineProse>>,
     <<lineBlank, lineCode, lineBlank>>}

InitCommon ==
    /\ p = 1
    /\ outputBlocks = <<>>
    /\ blockKey = <<>>
    /\ blockLines = <<>>
    /\ src = <<>>
    /\ i = 0
    /\ prevLineWasText = FALSE
    /\ previousLineWasText = FALSE
    /\ t = 0
    /\ savedOutputting = ""
    /\ isOutputting = ""
    /\ out = <<>>
    /\ history = <<>>
    /\ pc = "parse"

\* any source file, one captured program output
Init ==
    /\ programOutputLines = SampleOutput
    /\ sourceFile \in SeqsUpTo(SourceLineChoices, MaxSrcLen)
    /\ InitCommon

\* any captured program output, two source files
InitParser ==
    /\ programOutputLines \in SeqsUpTo(OutputLineChoices, MaxOutLen)
    /\ sourceFile \in SampleSources
    /\ InitCommon

Next ==
    \/ ParseLine
    \/ ParseEnd
    \/ ForwardStep
    \/ ForwardEnd
    \/ BackwardStep
    \/ BackwardEnd
    \/ TransduceLine
    \/ EndOfStream

-----------------------------------------------------------------------------
(* emdeer.py (docs/tutorial): the parser of the "@OUTPUT" convention *)

outputDirective == <<"@", "O", "U", "T", "P", "U", "T">>

\* s.split(":")[0]
RECURSIVE upToColon(_)
upToColon(s) ==
    IF s = <<>> \/ Head(s) = ":" THEN <<>>
    ELSE <<Head(s)>> \o upToColon(Tail(s))

\* directiveKey that keeps the whole directive line
directiveKeyWholeLine(s) == s

directiveKey(s) == upToColon(s)

\* the body of "for s in programOutputLines": the table, the key and the
\* accumulated lines afterwards
directiveLoopBody(s, blocks, key, lines) ==
    IF startswith(s, outputDirective)
    THEN [outputBlocks |-> IF key # <<>> THEN setBlock(blocks, key, lines)
                           ELSE blocks,
          blockKey |-> directiveKey(s),
          blockLines |-> Append(IF key # <<>> THEN <<>> ELSE lines, s)]
    ELSE [outputBlocks |-> blocks, blockKey |-> key,
          blockLines |-> Append(lines, s)]

DirectiveParseLine ==
    /\ pc = "parseDirectives"
    /\ p <= Len(programOutputLines)
    /\ LET r == directiveLoopBody(programOutputLines[p], outputBlocks,
                                  blockKey, blockLines) IN
         /\ outputBlocks' = r.outputBlocks
         /\ blockKey' = r.blockKey
         /\ blockLines' = r.blockLines
    /\ p' = p + 1
    /\ UNCHANGED <<programOutputLines, sourceFile, src, i, prevLineWasText,
                   previousLineWasText, t, savedOutputting, isOutputting,
                   out, history, pc>>

DirectiveParseEnd ==
    /\ pc = "parseDirectives"
    /\ p > Len(programOutputLines)
    /\ outputBlocks' = IF blockKey # <<>>
                       THEN setBlock(outputBlocks, blockKey, blockLines)
                       ELSE outputBlocks
    /\ pc' = "directivesParsed"
    /\ UNCHANGED <<programOutputLines, p, blockKey, blockLines, sourceFile,
                   src, i, prevLineWasText, previousLineWasText, t,
                   savedOutputting, isOutputting, out, history>>

directiveA == outputDirective \o <<" ", "a", ":">>

directiveA2 == outputDirective \o <<" ", "a", ":", " ", "x">>

DirectiveLineChoices ==
    {directiveA, directiveA2, outputDirective, <<"h">>, <<>>}

\* any captured program output, read by the "@OUTPUT" parser
InitDirectives ==
    /\ programOutputLines \in SeqsUpTo(DirectiveLineChoices, MaxOutLen)
    /\ sourceFile = <<>>
    /\ p = 1
    /\ outputBlocks = <<>>
    /\ blockKey = <<>>
    /\ blockLines = <<>>
    /\ src = <<>>
    /\ i = 0
    /\ prevLineWasText = FALSE
    /\ previousLineWasText = FALSE
    /\ t = 0
    /\ savedOutputting = ""
    /\ isOutputting = ""
    /\ out = <<>>
    /\ history = <<>>
    /\ pc = "parseDirectives"

NextDirectives ==
    \/ DirectiveParseLine
    \/ DirectiveParseEnd

SpecDirectives == InitDirectives /\ [][NextDirectives]_vars

-----------------------------------------------------------------------------
Spec == Init /\ [][Next]_vars

SpecParser == InitParser /\ [][Next]_vars

-----------------------------------------------------------------------------
(* What the claims speak of *)

\* number of outputLine calls made at the call site
emitted(o, site) == Cardinality({k \in 1..Len(o) : o[k].site = site})

\* fence-open markers minus fence-close markers
fenceDepth(o) == emitted(o, "codeBegin") - emitted(o, "codeEnd")

\* state and length of the output before line j of src is consumed
stateBefore(j) == IF j = 1 THEN "text" ELSE history[j - 1].isOutputting

outLenBefore(j) == IF j = 1 THEN 0 ELSE history[j - 1].outLen

\* the outputLine calls made while line j was consumed
emittedAt(j) == SubSeq(out, outLenBefore(j) + 1, history[j].outLen)

\* line j is a hide-begin marker met in state Text or Code
metBeginHide(j) ==
    /\ j \in 1..Len(history)
    /\ isBeginHide(src[j])
    /\ stateBefore(j) \in {"text", "code"}

\* the next hide-end marker after line j, Len(src) + 1 when there is none
nextEndHide(j) ==
    IF \E k \in (j + 1)..Len(src) : isEndHide(src[k])
    THEN CHOOSE k \in (j + 1)..Len(src) :
            /\ isEndHide(src[k])
            /\ \A m \in (j + 1)..(k - 1) : ~isEndHide(src[m])
    ELSE Len(src) + 1

transducing == pc \in {"transduce", "done"}

-----------------------------------------------------------------------------
\* C1: when all lines are consumed and the end-of-stream step has run, as
\* many code-fence-open markers as code-fence-close markers were emitted.
C1_FenceBalance ==
    pc = "done" => emitted(out, "codeBegin") = emitted(out, "codeEnd")

\* C2: a hide-begin marker met in state Text or Code, and every line up to
\* and including the next hide-end marker, appends nothing to the output;
\* every step taken in state Hidden leaves the output unchanged.
C2_HiddenEmitsNothing ==
    transducing =>
      /\ \A j \in 1..Len(history) :
           metBeginHide(j) =>
             \A k \in j..Len(history) :
               k <= nextEndHide(j) => history[k].outLen = outLenBefore(j)
      /\ \A k \in 1..Len(history) :
           stateBefore(k) = "hidden" => history[k].outLen = outLenBefore(k)
      /\ (pc = "done" /\ isOutputting = "hidden") =>
           Len(out) = outLenBefore(Len(history) + 1)

C2_Witness ==
    /\ pc = "done"
    /\ Len(out) > 0
    /\ \E j \in 1..Len(history) :
         /\ metBeginHide(j)
         /\ nextEndHide(j) <= Len(src)
         /\ nextEndHide(j) > j + 1

\* C3: the state right after a hide-end marker that closes a hide region
\* is the state right before the region's hide-begin marker, no fence
\* marker is emitted in between, and a code line that follows a region
\* entered from Code comes right after the last code line before it, in
\* the same fenced block.
C3_HideRestoresState ==
    transducing =>
      \A j \in 1..Len(history) :
        (metBeginHide(j) /\ nextEndHide(j) <= Len(history)) =>
          LET k == nextEndHide(j) IN
          /\ history[k].isOutputting = stateBefore(j)
          /\ \A n \in (outLenBefore(j) + 1)..history[k].outLen :
               out[n].site \notin {"codeBegin", "codeEnd"}
          /\ ( /\ stateBefore(j) = "code"
               /\ k + 1 <= Len(history)
               /\ isCode(src[k + 1])
               /\ ~isBeginHide(src[k + 1]) ) =>
               /\ history[k + 1].outLen = outLenBefore(j) + 1
               /\ out[outLenBefore(j)].site = "code"
               /\ out[outLenBefore(j) + 1] = outputLine("code", src[k + 1])

C3_Witness ==
    /\ pc = "done"
    /\ \E j \in 1..Len(history) :
         /\ metBeginHide(j)
         /\ stateBefore(j) = "code"
         /\ nextEndHide(j) + 1 <= Len(history)
         /\ isCode(src[nextEndHide(j) + 1])
         /\ ~isBeginHide(src[nextEndHide(j) + 1])

\* line j went through the text path
onTextPath(j) ==
    /\ j \in 1..Len(history)
    /\ stateBefore(j) \in {"text", "code"}
    /\ ~isBeginHide(src[j])
    /\ isText(src[j])

\* what the text path wrote for line j: the calls made for it, without
\* the fence-close that ends a code region
textPathOutput(j) ==
    LET e == emittedAt(j) IN
    IF e # <<>> /\ e[1].site = "codeEnd" THEN Tail(e) ELSE e

lineTexts(o) == [k \in 1..Len(o) |-> o[k].text]

\* C4: a text line whose prefix-stripped content, trimmed, is a key of the
\* table is replaced by the block's stored lines, each behind the
\* blockquote marker, in stored order, between two blockquoted fences (the
\* code writes one ">KEY:" line ahead of them); a text line that matches
\* no key is written as exactly its prefix-stripped content, as one line.
C4_BlockSubstitutionExact ==
    transducing =>
      \A j \in 1..Len(history) :
        onTextPath(j) =>
          LET stripped == sliceFrom(src[j], Len(textPrefix))
              key == strip(stripped)
              w == lineTexts(textPathOutput(j))
          IN  IF key \in DOMAIN outputBlocks
              THEN LET b == outputBlocks[key] IN
                   /\ Len(w) = Len(b) + 3
                   /\ w[1] = <<">">> \o key \o <<":">>
                   /\ w[2] = quoteFence
                   /\ \A n \in 1..Len(b) : w[n + 2] = <<">", " ">> \o b[n]
                   /\ w[Len(w)] = quoteFence
              ELSE w = <<stripped>>

C4_Witness ==
    /\ pc = "done"
    /\ \E j, k \in 1..Len(history) :
         /\ onTextPath(j)
         /\ onTextPath(k)
         /\ strip(sliceFrom(src[j], Len(textPrefix))) \in DOMAIN outputBlocks
         /\ Len(outputBlocks[strip(sliceFrom(src[j], Len(textPrefix)))]) >= 2
         /\ strip(sliceFrom(src[k], Len(textPrefix))) \notin DOMAIN outputBlocks
         /\ strip(sliceFrom(src[k], Len(textPrefix))) # sliceFrom(src[k], Len(textPrefix))

-----------------------------------------------------------------------------
\* line n of the captured output is a delimiter line
delimiterAt(n) ==
    n \in 1..Len(programOutputLines) /\ isDelimiter(programOutputLines[n])

\* the delimiter lines that open block key
openersOf(key) ==
    {n \in 1..Len(programOutputLines) :
        delimiterAt(n) /\ newBlockKey(programOutputLines[n]) = key}

openedKeys ==
    {newBlockKey(programOutputLines[n]) :
        n \in {m \in 1..Len(programOutputLines) : delimiterAt(m)}}

lastOf(S) == CHOOSE n \in S : \A m \in S : m <= n

\* the lines after delimiter line n, up to the next delimiter or the end
linesAfter(n) ==
    LET later == {m \in (n + 1)..Len(programOutputLines) : delimiterAt(m)}
        stop == IF later = {} THEN Len(programOutputLines) + 1
                ELSE CHOOSE m \in later : \A q \in later : m <= q
    IN  SubSeq(programOutputLines, n + 1, stop - 1)

\* xs without its leading and its trailing blank lines
blankTrimmed(xs) ==
    LET keep == {n \in 1..Len(xs) : ~isBlank(xs[n])} IN
    IF keep = {} THEN <<>>
    ELSE SubSeq(xs, CHOOSE n \in keep : \A m \in keep : n <= m, lastOf(keep))

blankRun(a, b) ==
    /\ a <= b
    /\ \A n \in a..b : isBlank(sourceFile[n])
    /\ a = 1 \/ ~isBlank(sourceFile[a - 1])
    /\ b = Len(sourceFile) \/ ~isBlank(sourceFile[b + 1])

\* C6: after the two sweeps every maximal run of blank lines that touches
\* the start or the end of the file, or has a text line on a side, is
\* rewritten entirely to text-prefix lines.
C6_BlankRunsAbsorbed ==
    transducing =>
      \A a, b \in 1..Len(sourceFile) :
        ( /\ blankRun(a, b)
          /\ \/ a = 1
             \/ b = Len(sourceFile)
             \/ isText(sourceFile[a - 1])
             \/ isText(sourceFile[b + 1]) ) =>
          \A n \in a..b : src[n] = textPrefix

\* C7: the lines the two sweeps leave are the two-pass extension of the
\* source file, and a second two-pass extension of them changes no line.
C7_ExtensionFixedPoint ==
    transducing =>
      /\ src = extendRegions(sourceFile)
      /\ extendRegions(src) = src

C7_Witness ==
    /\ pc = "done"
    /\ src # sourceFile
    /\ \E n \in 1..Len(src) : isBlank(src[n])

\* the text between the bracket markers of a delimiter line
bracketKey(s) ==
    LET u == strip(s) IN
    SubSeq(u, Len(delimOpen) + 1, Len(u) - Len(delimClose))

\* C8: the keys of the table are the texts between the bracket markers of
\* the delimiter lines, whatever whitespace surrounds a delimiter line.
C8_KeyIsBracketContent ==
    pc # "parse" =>
      DOMAIN outputBlocks =
        {bracketKey(programOutputLines[n]) :
            n \in {m \in 1..Len(programOutputLines) : delimiterAt(m)}}

\* C9: a line whose whitespace-stripped content is the text prefix without
\* its trailing space is text, and consuming it outside a hide region
\* writes one empty prose line and opens no code fence.
C9_PrefixOnlyLineIsEmptyProse ==
    transducing =>
      \A j \in 1..Len(history) :
        (strip(src[j]) = strip(textPrefix) /\ stateBefore(j) # "hidden") =>
          /\ isText(src[j])
          /\ textPathOutput(j) = <<outputLine("text", <<>>)>>

\* fence-opens minus fence-closes among the first n outputLine calls
depthAfter(n) == fenceDepth(SubSeq(out, 1, n))

-----------------------------------------------------------------------------
\* C11: in state Hidden the saved state is Text or Code; a line met in
\* state Hidden that is no hide-end marker (a hide-begin marker included)
\* changes neither the state nor the saved state, and the first hide-end
\* marker restores the saved state, however many hide-begin markers came
\* before it.
C11_HideDoesNotNest ==
    /\ [](isOutputting = "hidden" => savedOutputting \in {"text", "code"})
    /\ [][ (pc = "transduce" /\ t <= Len(src) /\ isOutputting = "hidden") =>
             /\ savedOutputting' = savedOutputting
             /\ IF isEndHide(src[t])
                THEN isOutputting' = savedOutputting
                ELSE isOutputting' = "hidden" ]_vars

C11_Witness ==
    /\ transducing
    /\ \E j, k \in 1..Len(history) :
         /\ metBeginHide(j)
         /\ j < k
         /\ k < nextEndHide(j)
         /\ isBeginHide(src[k])
         /\ nextEndHide(j) <= Len(history)
         /\ history[nextEndHide(j)].isOutputting \in {"text", "code"}

-----------------------------------------------------------------------------
\* whether line j of lines ends inside an open hide region: a region opens
\* at a hide-begin marker met outside every region and closes at the next
\* hide-end marker
RECURSIVE hideOpenAfter(_, _)
hideOpenAfter(lines, j) ==
    IF j = 0 THEN FALSE
    ELSE IF hideOpenAfter(lines, j - 1) THEN ~isEndHide(lines[j])
    ELSE isBeginHide(lines[j])

\* line j lies in a hide region, after the marker that opened it
insideHide(lines, j) == hideOpenAfter(lines, j - 1)

\* a maximal run a..b of blank lines with a non-text line on each side
blankRunInCode(a, b) ==
    /\ blankRun(a, b)
    /\ a > 1
    /\ b < Len(sourceFile)
    /\ ~isText(sourceFile[a - 1])
    /\ ~isText(sourceFile[b + 1])

\* consuming line n wrote it verbatim, inside an open code fence
writtenAsCode(n) ==
    /\ n \in 1..Len(history)
    /\ emittedAt(n) # <<>>
    /\ out[history[n].outLen] = outputLine("code", src[n])
    /\ depthAfter(history[n].outLen) = 1

\* no blank line is next to a text line, and the first line is not blank
noBlankNextToText ==
    \A n \in 1..Len(src) :
      isBlank(src[n]) =>
        /\ n > 1
        /\ ~isText(src[n - 1])
        /\ n < Len(src) => ~isText(src[n + 1])

\* C12 as stated: after the two sweeps no blank line is next to a text
\* line and the first line is not blank; a blank line whose run has
\* non-text lines on both sides is unchanged and is written inside the
\* code fence.
C12_AsStated ==
    pc = "done" =>
      /\ noBlankNextToText
      /\ \A a, b \in 1..Len(sourceFile) :
           blankRunInCode(a, b) =>
             \A n \in a..b : src[n] = sourceFile[n] /\ writtenAsCode(n)

\* C12 as amended: the same, the blank line being written inside the code
\* fence when it lies outside every hide region.
C12_ExtensionPostcondition ==
    pc = "done" =>
      /\ noBlankNextToText
      /\ \A a, b \in 1..Len(sourceFile) :
           blankRunInCode(a, b) =>
             \A n \in a..b :
               /\ src[n] = sourceFile[n]
               /\ ~insideHide(src, n) => writtenAsCode(n)

C12_Witness ==
    /\ pc = "done"
    /\ src # sourceFile
    /\ \E a, b \in 1..Len(sourceFile) :
         blankRunInCode(a, b) /\ ~insideHide(src, a) /\ writtenAsCode(a)

-----------------------------------------------------------------------------
\* C13: during and after the sweeps the list has as many lines as the
\* source file, every line that is not blank in the file is unchanged, and
\* a blank line of the file is either unchanged or the text-prefix token.
C13_ExtensionFrame ==
    pc # "parse" =>
      /\ Len(src) = Len(sourceFile)
      /\ \A n \in 1..Len(sourceFile) :
           IF isBlank(sourceFile[n])
           THEN src[n] \in {sourceFile[n], textPrefix}
           ELSE src[n] = sourceFile[n]

C13_Witness ==
    /\ pc = "done"
    /\ src # sourceFile
    /\ \E a, b, c \in 1..Len(sourceFile) :
         /\ isText(sourceFile[a])
         /\ isBeginHide(sourceFile[b]) \/ isEndHide(sourceFile[b])
         /\ sourceFile[c] = lineCode

-----------------------------------------------------------------------------
delimiterLines == {n \in 1..Len(programOutputLines) : delimiterAt(n)}

\* the first delimiter line, Len(programOutputLines) + 1 when there is none
firstDelimiter ==
    IF delimiterLines = {} THEN Len(programOutputLines) + 1
    ELSE CHOOSE n \in delimiterLines : \A m \in delimiterLines : n <= m

\* C14: every stored block is a run of captured-output lines that lies
\* after the first delimiter line, so a line that occurs only before the
\* first delimiter is in no block; without a delimiter the table is empty.
C14_PreDelimiterDiscarded ==
    pc # "parse" =>
      /\ delimiterLines = {} => DOMAIN outputBlocks = {}
      /\ \A key \in DOMAIN outputBlocks :
           \E a \in (firstDelimiter + 1)..(Len(programOutputLines) + 1) :
             \E b \in (a - 1)..Len(programOutputLines) :
               outputBlocks[key] = SubSeq(programOutputLines, a, b)
      /\ \A n \in 1..(firstDelimiter - 1) :
           (\A m \in (firstDelimiter + 1)..Len(programOutputLines) :
               programOutputLines[m] # programOutputLines[n]) =>
             \A key \in DOMAIN outputBlocks :
               \A m \in 1..Len(outputBlocks[key]) :
                 outputBlocks[key][m] # programOutputLines[n]

C14_Witness ==
    /\ pc = "done"
    /\ delimiterLines # {}
    /\ \E n \in 1..(firstDelimiter - 1) : ~isBlank(programOutputLines[n])
    /\ \E key \in DOMAIN outputBlocks : outputBlocks[key] # <<>>

-----------------------------------------------------------------------------
\* C15: the table has one block for every key a delimiter line opens, and
\* that block is the lines between the last delimiter that opened the key
\* and the next delimiter or the end, in order, without its leading and
\* trailing blank lines; it neither begins nor ends with a blank line and
\* holds no delimiter line.
C15_StoredBlockContent ==
    pc # "parse" =>
      /\ DOMAIN outputBlocks = openedKeys
      /\ \A key \in DOMAIN outputBlocks :
           LET b == outputBlocks[key] IN
           /\ b = blankTrimmed(linesAfter(lastOf(openersOf(key))))
           /\ b # <<>> => ~isBlank(b[1]) /\ ~isBlank(b[Len(b)])
           /\ \A m \in 1..Len(b) : ~isDelimiter(b[m])

C15_Witness ==
    /\ pc = "done"
    /\ \E key \in DOMAIN outputBlocks :
         LET raw == linesAfter(lastOf(openersOf(key))) IN
         /\ outputBlocks[key] # <<>>
         /\ isBlank(raw[1])
         /\ isBlank(raw[Len(raw)])

-----------------------------------------------------------------------------
\* the source lines that are not text, are no hide-begin marker and lie
\* outside every hide region, in source order
RECURSIVE codeSourceLines(_, _)
codeSourceLines(lines, n) ==
    IF n = 0 THEN <<>>
    ELSE IF ~isText(lines[n]) /\ ~isBeginHide(lines[n]) /\ ~insideHide(lines, n)
    THEN Append(codeSourceLines(lines, n - 1), lines[n])
    ELSE codeSourceLines(lines, n - 1)

\* the n-th outputLine call lies between a fence-open and its fence-close
fenced(n) ==
    \E a \in 1..(n - 1) :
      \E b \in (n + 1)..Len(out) :
        /\ out[a].site = "codeBegin"
        /\ out[b].site = "codeEnd"
        /\ \A m \in (a + 1)..(b - 1) : out[m].site \notin {"codeBegin", "codeEnd"}

\* the lines written at the positions of o that are in the set at
RECURSIVE linesWhere(_, _, _)
linesWhere(o, n, at) ==
    IF n = 0 THEN <<>>
    ELSE IF n \in at THEN Append(linesWhere(o, n - 1, at), o[n].text)
    ELSE linesWhere(o, n - 1, at)

\* the verbatim code lines written are the code source lines, in order
codeLinesMatchSource ==
    pc = "done" =>
      linesWhere(out, Len(out), {n \in 1..Len(out) : out[n].site = "code"})
        = codeSourceLines(src, Len(src))

\* C16: when the transducer is done, the lines written between a
\* fence-open and its fence-close are exactly the source lines that are
\* not text, are no hide-begin marker and lie outside every hide region,
\* each once, unmodified, in source order.
C16_CodeReproducedInFences ==
    pc = "done" =>
      linesWhere(out, Len(out), {n \in 1..Len(out) : fenced(n)})
        = codeSourceLines(src, Len(src))

-----------------------------------------------------------------------------
\* line j lies strictly inside a hide region that a hide-end marker closes
strictlyHidden(lines, j) ==
    /\ hideOpenAfter(lines, j - 1)
    /\ hideOpenAfter(lines, j)
    /\ \E k \in (j + 1)..Len(lines) : isEndHide(lines[k])

\* lines without the lines strictly inside its closed hide regions; the
\* regions are those of the list marks
RECURSIVE eraseHidden(_, _, _)
eraseHidden(lines, marks, n) ==
    IF n = 0 THEN <<>>
    ELSE IF strictlyHidden(marks, n) THEN eraseHidden(lines, marks, n - 1)
    ELSE Append(eraseHidden(lines, marks, n - 1), lines[n])

visibleFile == eraseHidden(sourceFile, sourceFile, Len(sourceFile))

\* C17: the output document is the one that the source file without the
\* lines strictly inside its hide regions yields, and the sweeps leave
\* the lines outside those regions as they leave them in that file; so two
\* files that differ only strictly inside hide regions yield the same
\* output and classify every blank line outside the regions alike.
C17_HiddenContentDoesNotInterfere ==
    pc = "done" =>
      /\ out = render(visibleFile, outputBlocks)
      /\ eraseHidden(src, sourceFile, Len(src)) = extendRegions(visibleFile)

C17_Witness ==
    /\ pc = "done"
    /\ out # <<>>
    /\ \E j, n \in 1..Len(sourceFile) :
         /\ strictlyHidden(sourceFile, j)
         /\ isBlank(sourceFile[j]) \/ isText(sourceFile[j])
         /\ ~insideHide(sourceFile, n)
         /\ isBlank(sourceFile[n])

-----------------------------------------------------------------------------
\* C18: a hide-end marker met in state Text or Code is written verbatim as
\* a code line, after a fence-open when the state was Text; the state
\* afterwards is Code and the saved state is unchanged.
C18_UnmatchedHideEndIsCode ==
    [][ ( /\ pc = "transduce"
          /\ t <= Len(src)
          /\ isOutputting \in {"text", "code"}
          /\ isEndHide(src[t]) ) =>
          /\ isOutputting' = "code"
          /\ savedOutputting' = savedOutputting
          /\ out' = out
                \o (IF isOutputting = "text"
                    THEN <<outputLine("codeBegin", codeBegin)>> ELSE <<>>)
                \o <<outputLine("code", src[t])>> ]_vars

C18_Witness ==
    /\ pc = "done"
    /\ \E j, k \in 1..Len(history) :
         /\ isEndHide(src[j])
         /\ stateBefore(j) = "text"
         /\ isEndHide(src[k])
         /\ stateBefore(k) = "code"
         /\ writtenAsCode(j)
         /\ writtenAsCode(k)

-----------------------------------------------------------------------------
directiveLines ==
    {n \in 1..Len(programOutputLines) :
        startswith(programOutputLines[n], outputDirective)}

firstOf(S) == CHOOSE n \in S : \A m \in S : n <= m

\* the line up to its first colon, the whole line when it has none
beforeFirstColon(s) ==
    LET colons == {c \in 1..Len(s) : s[c] = ":"} IN
    IF colons = {} THEN s ELSE SubSeq(s, 1, firstOf(colons) - 1)

\* the directive lines that open the block key
directivesOf(key) ==
    {n \in directiveLines : beforeFirstColon(programOutputLines[n]) = key}

\* directive line n and the lines after it, up to the next directive line
\* or the end
directiveAndAfter(n) ==
    LET later == {m \in directiveLines : m > n}
        stop == IF later = {} THEN Len(programOutputLines) + 1
                ELSE firstOf(later)
    IN  SubSeq(programOutputLines, n, stop - 1)

\* C19: in the "@OUTPUT" parser the keys of the table are the directive
\* lines up to their first colon; the block of a key is the directive line
\* that last opened it and the lines after it up to the next directive,
\* unstripped, with the lines before the first directive put in front
\* when that directive is the first one.
C19_DirectiveBlockContent ==
    pc = "directivesParsed" =>
      /\ DOMAIN outputBlocks =
           {beforeFirstColon(programOutputLines[n]) : n \in directiveLines}
      /\ \A key \in DOMAIN outputBlocks :
           LET n == lastOf(directivesOf(key)) IN
           outputBlocks[key] =
             (IF n = firstOf(directiveLines)
              THEN SubSeq(programOutputLines, 1, n - 1) ELSE <<>>)
             \o directiveAndAfter(n)

C19_Witness ==
    /\ pc = "directivesParsed"
    /\ \E key \in DOMAIN outputBlocks :
         /\ lastOf(directivesOf(key)) = firstOf(directiveLines)
         /\ firstOf(directiveLines) > 1
         /\ key # programOutputLines[firstOf(directiveLines)]
         /\ isBlank(outputBlocks[key][Len(outputBlocks[key])])

====
